---- MODULE Spec2Model ----
(***************************************************************************)
(* Model of the frontend WebSocketService (websocket.ts): one service      *)
(* object, the browser sockets it has created, its pending reconnect       *)
(* timers, its list of active subscriptions, and the wire messages it      *)
(* writes.  Each action is one JavaScript task: a public method call, a    *)
(* socket event with the handlers the service attached to it, or a timer.  *)
(* A socket is kept while it is referenced by this.ws or can still fire    *)
(* an event; a closed socket nobody references is garbage.                 *)
(***************************************************************************)
EXTENDS Integers, Sequences, FiniteSets, Bags, TLC

(* ---------------------------- bounds ----------------------------------- *)
\* connect() calls by consumers whose socket, or a reconnect timer descending
\* from it, is still alive
MaxChains == 2
\* cap on reconnectAttempt
MaxAttempt == 2
\* cap on reconnectAttempt where only the connection is exercised
MaxBackoff == 7
\* cap on the length of activeSubscriptions
MaxSubs == 2
\* cap on the number of unreleased subscribe calls per (channel, instrument)
MaxHold == 2
\* cap on the number of calls of on()
MaxRegs == 2

(* ------------------------- program constants --------------------------- *)
InitialReconnectDelay == 1000
maxReconnectDelay == 30000

\* WebSocket.readyState
CONNECTING == "CONNECTING"
OPEN == "OPEN"
CLOSING == "CLOSING"
CLOSED == "CLOSED"

(* ------------------------------ inputs --------------------------------- *)
\* the instrument of a pair whose request carries no market_tickers
Global == "global"
\* market_tickers === undefined
NoTickers == {Global}

\* interface Subscription { channels; market_tickers? }, with the arguments of
\* two consumers that are mounted together: TradingPanel subscribes to several
\* channels for the selected market, Portfolio to the fill channel without
\* tickers.
Requests ==
  { [channels |-> {"ticker", "fill"}, market_tickers |-> {"FOO"}],
    [channels |-> {"fill"}, market_tickers |-> NoTickers] }

\* the (channel, instrument) pairs a request names
Pairs(req) == req.channels \X req.market_tickers

AllPairs == UNION { Pairs(req) : req \in Requests }

(* ------------------------------ sockets -------------------------------- *)
\* a WebSocket the service created, with the promise connect() returned for it
Sock(rs, pr) == [readyState |-> rs, promise |-> pr]

\* this.ws === null
Null == Sock("null", "none")

\* new WebSocket(url) inside new Promise(...)
NewSocket == Sock(CONNECTING, "pending")

\* the sockets that can still fire an event
LiveSockets ==
  { Sock(CONNECTING, "pending"), Sock(OPEN, "resolved"),
    Sock(CLOSING, "pending"), Sock(CLOSING, "resolved") }

Live(s) == s.readyState \in {CONNECTING, OPEN, CLOSING}

\* a transport event is addressed to the socket this.ws references or to one
\* it no longer references
Targets == [orphan : BOOLEAN, sock : LiveSockets]

(* ------------------------ listeners: inputs ---------------------------- *)

\* message types that carry data
DataTypes == {"trade", "fill"}
\* acknowledgements of the peer
AdminTypes == {"subscribed", "unsubscribed"}
\* the types consumers register for and the peer sends: the data types and
\* one of the acknowledgements
Types == DataTypes \cup {"subscribed"}

\* two functions a consumer can pass to on(); "bad" throws when called
Callbacks == {"f", "bad"}
Throws(cb) == cb = "bad"

\* a function a consumer can pass to on() that calls off() of the type it
\* was registered for
Quitter == "quit"

\* message.data is undefined
Absent == [absent |-> TRUE]
SomeData == [ticker |-> "FOO"]

\* JSON.parse(event.data) of a frame of the peer
Messages == [type : Types, data : {Absent, SomeData}]
\* the acknowledgements among them
AckMessages == { m \in Messages : m.type \in AdminTypes }
NoMessage == [type |-> "none", data |-> Absent]
\* a frame whose event.data JSON.parse rejects
Undecodable == [type |-> "undecodable", data |-> Absent]

\* the listener a component registers when it mounts
FillListener == [type |-> "fill", cb |-> "f"]

\* new Map()
EmptyMap == [t \in {} |-> <<>>]

VARIABLES
  ws,                    \* this.ws: Null or the socket it references
  orphans,               \* bag of live sockets this.ws no longer references
  timers,                \* delays of the pending setTimeout callbacks
  reconnectDelay,        \* this.reconnectDelay
  reconnectAttempt,      \* this.reconnectAttempt
  activeSubscriptions,   \* this.activeSubscriptions
  outstanding,           \* per pair: subscribe calls not yet matched by an unsubscribe call
  closeCalled,           \* close() was called and no consumer has called connect() since
  sent,                  \* the messages the last task wrote with this.ws.send
  lastOp,                \* the last task that ran
  heldAtDrop,            \* <<the list as it was when isConnected() last turned false>>
  callbacks,             \* this.callbacks: per key, the Set in insertion order
  regs,                  \* the calls of on() so far; the i-th returned token i
  received,              \* the message the last task handled, if it handled one
  invoked,               \* the listener calls the last task made, in order
  escaped                \* an exception left handleMessage, or JSON.parse, uncaught in the last task

vars == <<ws, orphans, timers, reconnectDelay, reconnectAttempt,
          activeSubscriptions, outstanding, closeCalled, sent, lastOp,
          heldAtDrop, callbacks, regs, received, invoked, escaped>>

Min(a, b) == IF a <= b THEN a ELSE b

\* JSON.stringify({ command, channels, market_tickers })
Msg(command, req) ==
  [command |-> command, channels |-> req.channels,
   market_tickers |-> req.market_tickers]


\* this.ws !== null && this.ws.readyState === WebSocket.OPEN
isConnected == ws.readyState = OPEN

\* isConnected() has not turned false since the task before last
NoDrop == <<>>

\* a task that turns isConnected() false notes the list it found; the note is
\* kept until the task after the one that turns isConnected() true again
trackDrop ==
  heldAtDrop' = IF isConnected /\ ~isConnected' THEN <<activeSubscriptions>>
                ELSE IF isConnected THEN NoDrop
                ELSE heldAtDrop

Init ==
  /\ ws = Null
  /\ orphans = EmptyBag
  /\ timers = <<>>
  /\ reconnectDelay = InitialReconnectDelay
  /\ reconnectAttempt = 0
  /\ activeSubscriptions = <<>>
  /\ outstanding = [p \in AllPairs |-> 0]
  /\ closeCalled = FALSE
  /\ sent = <<>>
  /\ lastOp = "init"
  /\ heldAtDrop = NoDrop
  /\ callbacks = EmptyMap
  /\ regs = <<>>
  /\ received = NoMessage
  /\ invoked = <<>>
  /\ escaped = FALSE

(* ----------------------- subscription bookkeeping ---------------------- *)

\* subscribe() that forgets a request made while not connected
subscribeUnrecorded(st, conn, req) ==
  IF ~conn
    THEN st
    ELSE [subs |-> Append(st.subs, req),
          out |-> Append(st.out, Msg("subscribe", req))]

\* subscribe() that calls this.ws.send whatever the state of the socket
subscribeAlwaysSends(st, conn, req) ==
  [subs |-> Append(st.subs, req),
   out |-> Append(st.out, Msg("subscribe", req))]

\* subscribe(channels, market_tickers) over st = [subs, out]: the list and the
\* messages written so far; conn is the negation of the test of line 94
subscribe(st, conn, req) ==
  IF ~conn
    THEN [subs |-> Append(st.subs, req), out |-> st.out]
    ELSE [subs |-> Append(st.subs, req),
          out |-> Append(st.out, Msg("subscribe", req))]

\* unsubscribe(channels, market_tickers)
unsubscribe(st, conn, req) ==
  IF ~conn
    THEN st
    ELSE [subs |-> SelectSeq(st.subs,
                     LAMBDA sub : ~(req.channels \subseteq sub.channels)),
          out |-> Append(st.out, Msg("unsubscribe", req))]

\* subs.forEach(({ channels, market_tickers }) => this.subscribe(...))
RECURSIVE forEachSubscribe(_, _, _)
forEachSubscribe(st, conn, subs) ==
  IF subs = <<>>
    THEN st
    ELSE forEachSubscribe(subscribe(st, conn, Head(subs)), conn, Tail(subs))

\* the list back to front
RECURSIVE Reverse(_)
Reverse(seq) ==
  IF seq = <<>> THEN <<>> ELSE Append(Reverse(Tail(seq)), Head(seq))

\* resubscribe() that replays the latest request first
resubscribeReversed(subs, conn) ==
  forEachSubscribe([subs |-> <<>>, out |-> <<>>], conn, Reverse(subs))

\* resubscribe() that does not empty the list before it subscribes again
resubscribeKeeping(subs, conn) ==
  forEachSubscribe([subs |-> subs, out |-> <<>>], conn, subs)

\* resubscribe()
resubscribe(subs, conn) ==
  IF Len(subs) = 0
    THEN [subs |-> subs, out |-> <<>>]
    ELSE forEachSubscribe([subs |-> <<>>, out |-> <<>>], conn, subs)

(* --------------------------- connection -------------------------------- *)

\* the delay without the cap of maxReconnectDelay
ReconnectDelayUncapped(delay, attempt) ==
  delay * (2 ^ (attempt - 1))

\* Math.min(reconnectDelay * 2^(reconnectAttempt - 1), maxReconnectDelay),
\* the attempt already incremented
ReconnectDelayFor(delay, attempt) ==
  Min(delay * (2 ^ (attempt - 1)), maxReconnectDelay)

\* the browser's table of pending timeouts, kept in order of delay
RECURSIVE InsertTimer(_, _)
InsertTimer(seq, d) ==
  IF seq = <<>> \/ d <= Head(seq)
    THEN <<d>> \o seq
    ELSE <<Head(seq)>> \o InsertTimer(Tail(seq), d)

\* the sockets left behind when this.ws stops referencing w
Retire(w) == IF Live(w) THEN orphans (+) SetToBag({w}) ELSE orphans

\* live sockets and pending timers: each ends in one call of connect() or of
\* scheduleReconnect()
Chains == (IF Live(ws) THEN 1 ELSE 0) + BagCardinality(orphans) + Len(timers)

\* the body of connect(): a new socket replaces this.ws; the old one is
\* neither closed nor detached from its handlers
connect ==
  /\ orphans' = Retire(ws)
  /\ ws' = NewSocket

\* a consumer (or the module-level auto-connect) calls connect()
Connect ==
  /\ Chains < MaxChains
  /\ connect
  /\ closeCalled' = FALSE
  /\ sent' = <<>>
  /\ lastOp' = "connect"
  /\ UNCHANGED <<timers, reconnectDelay, reconnectAttempt,
                 activeSubscriptions, outstanding>>

\* a setTimeout callback of scheduleReconnect runs: this.connect().catch(...)
TimerFire(i) ==
  /\ i \in 1..Len(timers)
  /\ connect
  /\ timers' = SubSeq(timers, 1, i - 1) \o SubSeq(timers, i + 1, Len(timers))
  /\ sent' = <<>>
  /\ lastOp' = "timer"
  /\ UNCHANGED <<reconnectDelay, reconnectAttempt, activeSubscriptions,
                 outstanding, closeCalled>>

\* the socket an event is addressed to exists
Addressed(t) == IF t.orphan THEN BagIn(t.sock, orphans) ELSE ws = t.sock

\* the event's socket becomes new
Becomes(t, new) ==
  IF t.orphan
    THEN /\ orphans' = (orphans (-) SetToBag({t.sock}))
                         (+) (IF Live(new) THEN SetToBag({new}) ELSE EmptyBag)
         /\ ws' = ws
    ELSE /\ ws' = new
         /\ orphans' = orphans

\* ws.onopen
onopen ==
  /\ reconnectDelay' = InitialReconnectDelay
  /\ reconnectAttempt' = 0
  /\ LET r == resubscribe(activeSubscriptions, ws'.readyState = OPEN)
     IN /\ activeSubscriptions' = r.subs
        /\ sent' = r.out

\* a scheduleReconnect() that sets the timer twice
scheduleReconnectTwice ==
  /\ reconnectAttempt' = reconnectAttempt + 1
  /\ LET d == ReconnectDelayFor(reconnectDelay, reconnectAttempt + 1)
     IN timers' = InsertTimer(InsertTimer(timers, d), d)

\* a scheduleReconnect() that stops retrying after the first failure in a row
scheduleReconnectGivesUp ==
  /\ reconnectAttempt' = reconnectAttempt + 1
  /\ timers' = IF reconnectAttempt = 0
                 THEN InsertTimer(timers,
                        ReconnectDelayFor(reconnectDelay, reconnectAttempt + 1))
                 ELSE timers

\* scheduleReconnect()
scheduleReconnect ==
  /\ reconnectAttempt' = reconnectAttempt + 1
  /\ timers' = InsertTimer(timers,
                 ReconnectDelayFor(reconnectDelay, reconnectAttempt + 1))

\* ws.onclose that also clears the subscription list
oncloseForgets ==
  /\ scheduleReconnect
  /\ activeSubscriptions' = <<>>
  /\ UNCHANGED reconnectDelay

\* ws.onclose
onclose ==
  /\ scheduleReconnect
  /\ UNCHANGED <<reconnectDelay, activeSubscriptions>>

\* the transport of a connecting socket opens
SocketOpen(t) ==
  /\ Addressed(t)
  /\ t.sock.readyState = CONNECTING
  /\ Becomes(t, Sock(OPEN, "resolved"))
  /\ onopen
  /\ lastOp' = "open"
  /\ UNCHANGED <<timers, outstanding, closeCalled>>

\* the peer starts the closing handshake: readyState turns CLOSING, no handler runs
SocketClosing(t) ==
  /\ Addressed(t)
  /\ t.sock.readyState = OPEN
  /\ Becomes(t, [t.sock EXCEPT !.readyState = CLOSING])
  /\ sent' = <<>>
  /\ lastOp' = "closing"
  /\ UNCHANGED <<timers, reconnectDelay, reconnectAttempt,
                 activeSubscriptions, outstanding, closeCalled>>

\* ws.onerror whose reject(error) also overturns a promise already resolved
closeEventRejects(t, err) ==
  /\ Addressed(t)
  /\ t.sock.promise = "pending" => err
  /\ Becomes(t, Sock(CLOSED, IF err THEN "rejected" ELSE t.sock.promise))
  /\ onclose
  /\ sent' = <<>>
  /\ lastOp' = IF err THEN "error+close" ELSE "close"
  /\ UNCHANGED <<outstanding, closeCalled>>

\* the transport of a socket closes; err says whether an error event precedes
\* the close event (it always does when the connection was never established):
\* ws.onerror rejects the promise, ws.onclose calls scheduleReconnect()
closeEvent(t, err) ==
  /\ Addressed(t)
  /\ t.sock.promise = "pending" => err
  /\ Becomes(t, Sock(CLOSED, IF err /\ t.sock.promise = "pending"
                               THEN "rejected" ELSE t.sock.promise))
  /\ onclose
  /\ sent' = <<>>
  /\ lastOp' = IF err THEN "error+close" ELSE "close"
  /\ UNCHANGED <<outstanding, closeCalled>>

\* a close event, while reconnectAttempt is below the cap
SocketClosed(t, err) ==
  /\ reconnectAttempt < MaxAttempt
  /\ closeEvent(t, err)

\* a close event where only the connection is exercised
SocketClosedLong(t, err) ==
  /\ reconnectAttempt < MaxBackoff
  /\ closeEvent(t, err)

\* close(): this.ws.close() starts the closing handshake (or aborts the
\* attempt) and the reference is dropped; the socket's events still arrive
Close ==
  /\ orphans' = Retire(IF ws.readyState \in {CONNECTING, OPEN}
                         THEN [ws EXCEPT !.readyState = CLOSING] ELSE ws)
  /\ ws' = Null
  /\ closeCalled' = TRUE
  /\ sent' = <<>>
  /\ lastOp' = "closeCall"
  /\ UNCHANGED <<timers, reconnectDelay, reconnectAttempt,
                 activeSubscriptions, outstanding>>

(* ----------------------------- consumers ------------------------------- *)

\* a consumer calls subscribe(req.channels, req.market_tickers)
Subscribe(req) ==
  /\ Len(activeSubscriptions) < MaxSubs
  /\ \A p \in Pairs(req) : outstanding[p] < MaxHold
  /\ LET r == subscribe([subs |-> activeSubscriptions, out |-> <<>>],
                        isConnected, req)
     IN /\ activeSubscriptions' = r.subs
        /\ sent' = r.out
  /\ outstanding' = [p \in AllPairs |->
                       IF p \in Pairs(req) THEN outstanding[p] + 1 ELSE outstanding[p]]
  /\ lastOp' = "subscribe"
  /\ UNCHANGED <<ws, orphans, timers, reconnectDelay, reconnectAttempt, closeCalled>>

\* a consumer calls unsubscribe(req.channels, req.market_tickers)
Unsubscribe(req) ==
  /\ LET r == unsubscribe([subs |-> activeSubscriptions, out |-> <<>>],
                          isConnected, req)
     IN /\ activeSubscriptions' = r.subs
        /\ sent' = r.out
  /\ outstanding' = [p \in AllPairs |->
                       IF p \in Pairs(req) /\ outstanding[p] > 0
                         THEN outstanding[p] - 1 ELSE outstanding[p]]
  /\ lastOp' = "unsubscribe"
  /\ UNCHANGED <<ws, orphans, timers, reconnectDelay, reconnectAttempt, closeCalled>>

(* ------------------------------ listeners ------------------------------ *)

\* a task of the connection that also empties this.callbacks
ForgetListeners ==
  /\ received' = NoMessage
  /\ invoked' = <<>>
  /\ escaped' = FALSE
  /\ callbacks' = EmptyMap
  /\ UNCHANGED regs

\* the listeners are not touched and no message is handled
NoDispatch ==
  /\ received' = NoMessage
  /\ invoked' = <<>>
  /\ escaped' = FALSE
  /\ UNCHANGED <<callbacks, regs>>

\* a task of the listeners that also empties this.activeSubscriptions
ForgetSubscriptions ==
  /\ sent' = <<>>
  /\ activeSubscriptions' = <<>>
  /\ UNCHANGED <<ws, orphans, timers, reconnectDelay, reconnectAttempt,
                 outstanding, closeCalled, heldAtDrop>>

\* nothing is written and the connection and the subscriptions are not touched
NoTraffic ==
  /\ sent' = <<>>
  /\ UNCHANGED <<ws, orphans, timers, reconnectDelay, reconnectAttempt,
                 activeSubscriptions, outstanding, closeCalled, heldAtDrop>>

\* Set.prototype.add: a value already in the Set keeps its place
SetAdd(set, cb) ==
  IF \E i \in 1..Len(set) : set[i] = cb THEN set ELSE Append(set, cb)

\* Set.prototype.delete
SetDelete(set, cb) == SelectSeq(set, LAMBDA c : c # cb)

\* on() that puts the new callback in front
onInFront(map, type, cb) ==
  LET m == IF type \in DOMAIN map THEN map ELSE map @@ (type :> <<>>)
  IN [m EXCEPT ![type] = <<cb>> \o SetDelete(@, cb)]

\* on(type, callback): the effect on this.callbacks
on(map, type, cb) ==
  LET m == IF type \in DOMAIN map THEN map ELSE map @@ (type :> <<>>)
  IN [m EXCEPT ![type] = SetAdd(@, cb)]

\* the function on(type, callback) returns
release(map, type, cb) ==
  IF type \in DOMAIN map
    THEN [map EXCEPT ![type] = SetDelete(@, cb)]
    ELSE map

\* off() that clears the whole Map
offAll(map, type) == EmptyMap

\* off(type)
off(map, type) == [t \in DOMAIN map \ {type} |-> map[t]]

\* message.data || message
Payload(msg) == IF msg.data # Absent THEN msg.data ELSE msg

NoCalls == [calls |-> <<>>, threw |-> FALSE]

\* callback(payload) with no try around it
call(cb, payload) ==
  [calls |-> <<[cb |-> cb, payload |-> payload]>>, threw |-> Throws(cb)]

\* try { callback(payload) } catch (error) { console.error(...) }
tryCall(cb, payload) ==
  [calls |-> <<[cb |-> cb, payload |-> payload]>>, threw |-> FALSE]

\* callbacks.forEach(callback => ...): an exception leaving the arrow function
\* ends the iteration
RECURSIVE forEach(_, _)
forEach(set, payload) ==
  IF set = <<>>
    THEN NoCalls
    ELSE LET r == tryCall(Head(set), payload)
         IN IF r.threw
              THEN r
              ELSE LET rest == forEach(Tail(set), payload)
                   IN [calls |-> r.calls \o rest.calls, threw |-> rest.threw]

\* handleMessage(message)
handleMessage(map, msg) ==
  IF msg.type \in AdminTypes
    THEN NoCalls
    ELSE IF msg.type \in DOMAIN map
           THEN forEach(map[msg.type], Payload(msg))
           ELSE NoCalls

\* a consumer calls on(type, cb) and keeps the function it returns
On(type, cb) ==
  /\ Len(regs) < MaxRegs
  /\ callbacks' = on(callbacks, type, cb)
  /\ regs' = Append(regs, [type |-> type, cb |-> cb, state |-> "held"])
  /\ received' = NoMessage
  /\ invoked' = <<>>
  /\ escaped' = FALSE
  /\ lastOp' = "on"
  /\ NoTraffic

\* a consumer calls the function the i-th call of on() returned
Release(i) ==
  /\ i \in 1..Len(regs)
  /\ callbacks' = release(callbacks, regs[i].type, regs[i].cb)
  /\ regs' = [regs EXCEPT ![i].state = "released"]
  /\ received' = NoMessage
  /\ invoked' = <<>>
  /\ escaped' = FALSE
  /\ lastOp' = "release"
  /\ NoTraffic

\* a consumer calls off(type)
Off(type) ==
  /\ callbacks' = off(callbacks, type)
  /\ regs' = [i \in 1..Len(regs) |->
               IF regs[i].type = type /\ regs[i].state = "held"
                 THEN [regs[i] EXCEPT !.state = "cleared"] ELSE regs[i]]
  /\ received' = NoMessage
  /\ invoked' = <<>>
  /\ escaped' = FALSE
  /\ lastOp' = "off"
  /\ NoTraffic

\* some socket of the service is open
SomeOpen ==
  isConnected \/ \E s \in BagToSet(orphans) : s.readyState = OPEN

\* ws.onmessage of an open socket: JSON.parse, then handleMessage, inside a try
OnMessage(msg) ==
  /\ SomeOpen
  /\ LET r == handleMessage(callbacks, msg)
     IN /\ invoked' = r.calls
        /\ escaped' = r.threw
  /\ received' = msg
  /\ lastOp' = "message"
  /\ UNCHANGED <<callbacks, regs>>
  /\ NoTraffic

\* JSON.parse(event.data) of an undecodable frame with no try around it
parseThrows(frame) == [calls |-> <<>>, threw |-> TRUE]

\* try { JSON.parse(event.data); ... } catch (error) { console.error(...) } of
\* an undecodable frame: handleMessage is not reached
parseCaught(frame) == NoCalls

\* ws.onmessage of an open socket, the frame being undecodable
OnUndecodable ==
  /\ SomeOpen
  /\ LET r == parseCaught(Undecodable)
     IN /\ invoked' = r.calls
        /\ escaped' = r.threw
  /\ received' = Undecodable
  /\ lastOp' = "message"
  /\ UNCHANGED <<callbacks, regs>>
  /\ NoTraffic

\* callbacks.forEach over the Set read at line 78, the callbacks being free to
\* call off(type): off() deletes the key of the Map and leaves the Set, which
\* forEach goes on visiting; the result is the calls made and the Map left
RECURSIVE forEachReentrant(_, _, _, _)
forEachReentrant(set, payload, map, type) ==
  IF set = <<>>
    THEN [calls |-> <<>>, map |-> map]
    ELSE LET cb == Head(set)
             after == IF cb = Quitter THEN off(map, type) ELSE map
             rest == forEachReentrant(Tail(set), payload, after, type)
         IN [calls |-> tryCall(cb, payload).calls \o rest.calls,
             map |-> rest.map]

\* handleMessage(message), the callbacks being free to call off(type)
handleMessageReentrant(map, msg) ==
  IF msg.type \in AdminTypes \/ msg.type \notin DOMAIN map
    THEN [calls |-> <<>>, map |-> map]
    ELSE forEachReentrant(map[msg.type], Payload(msg), map, msg.type)

\* ws.onmessage of an open socket, with listeners that may call off(type)
OnMessageReentrant(msg) ==
  /\ SomeOpen
  /\ LET r == handleMessageReentrant(callbacks, msg)
     IN /\ invoked' = r.calls
        /\ callbacks' = r.map
        /\ regs' = IF \E k \in 1..Len(r.calls) : r.calls[k].cb = Quitter
                     THEN [i \in 1..Len(regs) |->
                             IF regs[i].type = msg.type /\ regs[i].state = "held"
                               THEN [regs[i] EXCEPT !.state = "cleared"]
                               ELSE regs[i]]
                     ELSE regs
  /\ escaped' = FALSE
  /\ received' = msg
  /\ lastOp' = "message"
  /\ NoTraffic

\* the connect() call made when the module is loaded
AutoConnect ==
  /\ ws = Null
  /\ Connect

(* --------------------------- specifications ---------------------------- *)

\* a task of the connection or of a consumer's subscriptions, the drops of
\* the connection not being noted
Plain == UNCHANGED heldAtDrop /\ NoDispatch

\* the same, the drops being noted
Tracked == trackDrop /\ NoDispatch

Next ==
  \/ Connect /\ Plain
  \/ Close /\ Plain
  \/ \E i \in 1..MaxChains : TimerFire(i) /\ Plain
  \/ \E t \in Targets : SocketOpen(t) /\ Plain
  \/ \E t \in Targets : SocketClosing(t) /\ Plain
  \/ \E t \in Targets, err \in BOOLEAN : SocketClosed(t, err) /\ Plain
  \/ \E req \in Requests : Subscribe(req) /\ Plain
  \/ \E req \in Requests : Unsubscribe(req) /\ Plain

Spec == Init /\ [][Next]_vars

\* the connection alone: no consumer subscribes, and runs of failures are long
\* enough for the delay to reach maxReconnectDelay
ConnNext ==
  \/ Connect /\ Plain
  \/ Close /\ Plain
  \/ \E i \in 1..MaxChains : TimerFire(i) /\ Plain
  \/ \E t \in Targets : SocketOpen(t) /\ Plain
  \/ \E t \in Targets : SocketClosing(t) /\ Plain
  \/ \E t \in Targets, err \in BOOLEAN : SocketClosedLong(t, err) /\ Plain

ConnSpec == Init /\ [][ConnNext]_vars

\* setTimeout callbacks run: a pending timer eventually fires
ConnFairSpec ==
  ConnSpec /\ WF_vars(\E i \in 1..MaxChains : TimerFire(i) /\ Plain)

\* the whole service, each task noting whether it drops the connection
ReplayNext ==
  \/ Connect /\ Tracked
  \/ Close /\ Tracked
  \/ \E i \in 1..MaxChains : TimerFire(i) /\ Tracked
  \/ \E t \in Targets : SocketOpen(t) /\ Tracked
  \/ \E t \in Targets : SocketClosing(t) /\ Tracked
  \/ \E t \in Targets, err \in BOOLEAN : SocketClosed(t, err) /\ Tracked
  \/ \E req \in Requests : Subscribe(req) /\ Tracked
  \/ \E req \in Requests : Unsubscribe(req) /\ Tracked

ReplaySpec == Init /\ [][ReplayNext]_vars

\* the listeners: the module connects, the socket opens, consumers register
\* and release listeners, and messages arrive
DispatchNext ==
  \/ AutoConnect /\ Plain
  \/ \E t \in Targets : SocketOpen(t) /\ Plain
  \/ \E type \in Types, cb \in Callbacks : On(type, cb)
  \/ \E i \in 1..MaxRegs : Release(i)
  \/ \E type \in Types : Off(type)
  \/ \E msg \in Messages : OnMessage(msg)
  \/ OnUndecodable

DispatchSpec == Init /\ [][DispatchNext]_vars

\* the module has run its connect(): without close(), this.ws is never null
\* again
Loaded == ws # Null

\* the application as it is written: the module connects once when it is
\* loaded, nobody calls connect() or close(), consumers subscribe and
\* unsubscribe
AppNext ==
  \/ AutoConnect /\ Plain
  \/ \E i \in 1..MaxChains : TimerFire(i) /\ Plain
  \/ \E t \in Targets : SocketOpen(t) /\ Plain
  \/ \E t \in Targets : SocketClosing(t) /\ Plain
  \/ \E t \in Targets, err \in BOOLEAN : SocketClosed(t, err) /\ Plain
  \/ \E req \in Requests : Loaded /\ Subscribe(req) /\ Plain
  \/ \E req \in Requests : Loaded /\ Unsubscribe(req) /\ Plain

AppSpec == Init /\ [][AppNext]_vars

\* listeners that may call off() for their own type while they are called
ReentrantNext ==
  \/ AutoConnect /\ Plain
  \/ \E t \in Targets : SocketOpen(t) /\ Plain
  \/ \E type \in DataTypes, cb \in Callbacks \cup {Quitter} : On(type, cb)
  \/ \E msg \in Messages : OnMessageReentrant(msg)

ReentrantSpec == Init /\ [][ReentrantNext]_vars

\* consumers subscribe and unsubscribe on the first connection, the peer
\* acknowledges at its own pace, and a consumer listens for acknowledgements
AckNext ==
  \/ AutoConnect /\ Plain
  \/ \E t \in Targets : SocketOpen(t) /\ Plain
  \/ \E req \in Requests : Subscribe(req) /\ Plain
  \/ \E req \in Requests : Unsubscribe(req) /\ Plain
  \/ \E type \in AdminTypes \cap Types, cb \in Callbacks : On(type, cb)
  \/ \E msg \in AckMessages : OnMessage(msg)

AckSpec == Init /\ [][AckNext]_vars

\* the connection in all its states, and a consumer that registers and
\* releases its listener of fills meanwhile
ListenersNext ==
  \/ Connect /\ Plain
  \/ Close /\ Plain
  \/ \E i \in 1..MaxChains : TimerFire(i) /\ Plain
  \/ \E t \in Targets : SocketOpen(t) /\ Plain
  \/ \E t \in Targets : SocketClosing(t) /\ Plain
  \/ \E t \in Targets, err \in BOOLEAN : SocketClosed(t, err) /\ Plain
  \/ On(FillListener.type, FillListener.cb)
  \/ \E i \in 1..MaxRegs : Release(i)
  \/ Off(FillListener.type)

ListenersSpec == Init /\ [][ListenersNext]_vars

TypeOK ==
  /\ ws \in {Null, Sock(CLOSED, "resolved"), Sock(CLOSED, "rejected")} \cup LiveSockets
  /\ Chains <= MaxChains
  /\ \A s \in BagToSet(orphans) : s \in LiveSockets
  /\ Len(activeSubscriptions) <= MaxSubs
  /\ \A i \in 1..Len(activeSubscriptions) : activeSubscriptions[i] \in Requests
  /\ reconnectAttempt \in 0..MaxBackoff
  /\ Len(regs) <= MaxRegs
  /\ DOMAIN callbacks \subseteq Types
  /\ \A t \in DOMAIN callbacks : \A i \in 1..Len(callbacks[t]) :
       callbacks[t][i] \in Callbacks \cup {Quitter}
  /\ received \in Messages \cup {NoMessage, Undecodable}
  /\ escaped \in BOOLEAN
  /\ heldAtDrop # NoDrop
       => /\ Len(heldAtDrop) = 1
          /\ Len(heldAtDrop[1]) <= MaxSubs
          /\ \A i \in 1..Len(heldAtDrop[1]) : heldAtDrop[1][i] \in Requests

(* ------------------------------ claims --------------------------------- *)

\* the number of messages of one command among out that cover pair p
Count(out, command, p) ==
  Cardinality({ i \in 1..Len(out) :
                  /\ out[i].command = command
                  /\ p \in out[i].channels \X out[i].market_tickers })

\* the pairs some entry of the list covers
Recorded(subs) == UNION { Pairs(subs[i]) : i \in 1..Len(subs) }

IsPrefix(a, b) == Len(a) <= Len(b) /\ SubSeq(b, 1, Len(a)) = a

\* sockets created by the service that are connecting or open
Transports ==
  (IF ws.readyState \in {CONNECTING, OPEN} THEN 1 ELSE 0)
    + CopiesIn(Sock(CONNECTING, "pending"), orphans)
    + CopiesIn(Sock(OPEN, "resolved"), orphans)

\* the open event of the socket this.ws references: the service becomes connected
BecomesConnected == lastOp' = "open" /\ ~isConnected /\ isConnected'

\* C1: once close() has been called, and until a consumer calls connect()
\* again, no task schedules a reconnect timer and no task opens a new socket.
C1_CloseIsTerminal ==
  [][(closeCalled /\ closeCalled')
       => (Len(timers') <= Len(timers) /\ lastOp' # "timer")]_vars

\* C2: while connected, an unsubscribe that leaves a pair with outstanding
\* subscribe calls writes no unsubscribe for that pair and keeps it recorded;
\* the unsubscribe that releases the last one writes exactly one.
C2_LastReleaseUnsubscribes ==
  [][(lastOp' = "unsubscribe" /\ isConnected)
       => \A p \in AllPairs :
            outstanding'[p] < outstanding[p]
              => /\ Count(sent', "unsubscribe", p)
                      = (IF outstanding'[p] = 0 THEN 1 ELSE 0)
                 /\ outstanding'[p] > 0 => p \in Recorded(activeSubscriptions')]_vars

\* C3: while connected, a subscribe call writes a wire subscribe for a pair
\* exactly when it takes the pair's outstanding count from 0 to 1, and none
\* for a pair that is already held.
C3_SubscribeOncePerAcquire ==
  [][(lastOp' = "subscribe" /\ isConnected)
       => \A p \in AllPairs :
            outstanding'[p] > outstanding[p]
              => Count(sent', "subscribe", p)
                   = (IF outstanding[p] = 0 THEN 1 ELSE 0)]_vars

\* C4: when the service becomes connected, exactly one wire subscribe covers
\* each pair that has an outstanding subscribe call.
C4_ReplayOncePerHeldPair ==
  [][BecomesConnected
       => \A p \in AllPairs :
            outstanding[p] > 0 => Count(sent', "subscribe", p) = 1]_vars

\* C5: when the service becomes connected, no wire subscribe covers a pair
\* whose subscribe calls have all been matched by unsubscribe calls.
C5_NoReplayOfReleasedPair ==
  [][BecomesConnected
       => \A p \in AllPairs :
            outstanding[p] = 0 => Count(sent', "subscribe", p) = 0]_vars

\* C6: unsubscribe(channels, instruments) leaves recorded every recorded pair
\* it does not name.
C6_UnsubscribeReleasesOnlyNamedPairs ==
  [][\A req \in Requests :
       Unsubscribe(req)
         => \A p \in Recorded(activeSubscriptions) \ Pairs(req) :
              p \in Recorded(activeSubscriptions')]_vars

\* C7: a transport close or error event leaves the recorded subscriptions as
\* they were, and no task that runs while the service is not connected removes
\* an entry, so the entries of before the drop are there at the next open.
C7_DropKeepsSubscriptions ==
  [][/\ lastOp' \in {"closing", "close", "error+close"}
          => activeSubscriptions' = activeSubscriptions
     /\ ~isConnected => IsPrefix(activeSubscriptions, activeSubscriptions')]_vars

\* the current socket has dropped with subscriptions recorded
C7_Witness ==
  /\ lastOp \in {"close", "error+close"}
  /\ ws.readyState = CLOSED
  /\ activeSubscriptions # <<>>

\* C8: a subscribe call made while not connected writes nothing and appends
\* the request; the entry stays while the service is not connected; and the
\* open that makes the service connected writes one wire subscribe per entry,
\* with the entry's channels and market_tickers.
C8_DeferredSubscribeIsReplayed ==
  [][/\ \A req \in Requests :
          (Subscribe(req) /\ ~isConnected)
            => /\ sent' = <<>>
               /\ activeSubscriptions' = Append(activeSubscriptions, req)
     /\ (~isConnected /\ ~isConnected')
          => IsPrefix(activeSubscriptions, activeSubscriptions')
     /\ BecomesConnected
          => sent' = [i \in 1..Len(activeSubscriptions) |->
                        Msg("subscribe", activeSubscriptions[i])]]_vars

\* the socket of this.ws has just opened and the service has written one wire
\* subscribe for every request recorded before the open, none of them released
C8_Witness ==
  /\ lastOp = "open"
  /\ isConnected
  /\ reconnectAttempt = 0
  /\ sent # <<>>
  /\ Len(sent) = Len(activeSubscriptions)
  /\ \A p \in Recorded(activeSubscriptions) : outstanding[p] > 0

\* C9: at most one socket created by the service is connecting or open.
C9_SingleTransport == Transports <= 1

\* C10: connect() called by a consumer while an attempt is in flight creates
\* no socket (the call fails instead of returning a pending promise).
C10_ConnectInFlightFails ==
  [][(lastOp' = "connect" /\ CopiesIn(NewSocket, orphans)
                             + (IF ws = NewSocket THEN 1 ELSE 0) > 0)
       => (ws' = ws /\ orphans' = orphans)]_vars

\* seq without its i-th element
Without(seq, i) == SubSeq(seq, 1, i - 1) \o SubSeq(seq, i + 1, Len(seq))

\* 1s, 2s, 4s, 8s, 16s, then 30s for good
BackoffTable == <<1000, 2000, 4000, 8000, 16000, 30000>>

ExpectedDelay(k) == BackoffTable[Min(k, Len(BackoffTable))]

\* C11: reconnectAttempt counts the close events since the last open (an open
\* resets it to zero, a close event adds one, nothing else changes it), and
\* the k-th close event in a row schedules one timer of min(1s * 2^(k-1), 30s).
C11_BackoffSequence ==
  [][/\ lastOp' = "open" => reconnectAttempt' = 0
     /\ lastOp' \in {"close", "error+close"}
          => /\ reconnectAttempt' = reconnectAttempt + 1
             /\ \E i \in 1..Len(timers') :
                  /\ timers'[i] = ExpectedDelay(reconnectAttempt')
                  /\ Without(timers', i) = timers
     /\ lastOp' \notin {"open", "close", "error+close"}
          => reconnectAttempt' = reconnectAttempt]_vars

\* the seventh failure in a row has just scheduled a retry at the 30s cap
C11_Witness ==
  /\ lastOp \in {"close", "error+close"}
  /\ reconnectAttempt = 7
  /\ timers = <<30000>>

CloseEvents == {"close", "error+close"}

\* C12: every close event of a transport schedules a retry, whatever the
\* number of failures before it, and (timers firing) the retry is made: after
\* a close event, unless close() is called, a timer callback calls connect()
\* and a new connection attempt is under way.
C12_ReconnectNeverGivesUp ==
  /\ [][lastOp' \in CloseEvents => Len(timers') = Len(timers) + 1]_vars
  /\ (lastOp \in CloseEvents /\ ~closeCalled)
       ~> (closeCalled \/ (lastOp = "timer" /\ ws = NewSocket))

\* a retry is made after seven failures in a row and no call of close()
C12_Witness ==
  /\ lastOp = "timer"
  /\ ws = NewSocket
  /\ reconnectAttempt = 7
  /\ ~closeCalled

\* the subscribe requests for the entries of a list, in the order of the list
Replay(subs) == [i \in 1..Len(subs) |-> Msg("subscribe", subs[i])]

\* C13: a task turns isConnected() true only by the open of this.ws, and that
\* task writes the subscribe requests for the whole list, in list order, and
\* nothing else; the entries recorded when the connection dropped stay at the
\* head of the list during the outage, so their requests are written before
\* those of the entries recorded during the outage, and any later request is
\* written by a later task.
C13_ReplayComesFirst ==
  [][/\ (~isConnected /\ isConnected')
          => /\ lastOp' = "open"
             /\ activeSubscriptions' = activeSubscriptions
             /\ sent' = Replay(activeSubscriptions)
             /\ heldAtDrop # NoDrop
                  => IsPrefix(Replay(heldAtDrop[1]), sent')
     /\ (~isConnected /\ ~isConnected')
          => IsPrefix(activeSubscriptions, activeSubscriptions')]_vars

\* a connection dropped with one entry, a second was recorded during the
\* outage, and the open has just written both, the older one first
C13_Witness ==
  /\ lastOp = "open"
  /\ isConnected
  /\ heldAtDrop # NoDrop
  /\ Len(heldAtDrop[1]) = 1
  /\ Len(sent) = 2
  /\ sent[1] = Msg("subscribe", heldAtDrop[1][1])
  /\ sent[2] # sent[1]

(* ------------------------ claims on the listeners ---------------------- *)

\* tokens of the registrations for a type that were neither released nor
\* cleared by off()
Held(type) ==
  { i \in 1..Len(regs) : regs[i].type = type /\ regs[i].state = "held" }

\* the callbacks of the registrations held for a type, in the order of the
\* calls of on()
HeldCallbacks(type) ==
  LET s == SelectSeq(regs, LAMBDA r : r.type = type /\ r.state = "held")
  IN [i \in 1..Len(s) |-> s[i].cb]

\* the callbacks of a sequence of listener calls
CallbacksOf(calls) == [i \in 1..Len(calls) |-> calls[i].cb]

\* the callbacks the Set of a key holds; none when the key is absent
Members(map, type) ==
  IF type \in DOMAIN map THEN map[type] ELSE <<>>

\* a can be had from b by leaving elements out
RECURSIVE IsSubseq(_, _)
IsSubseq(a, b) ==
  IF a = <<>> THEN TRUE
  ELSE IF b = <<>> THEN FALSE
  ELSE IF Head(a) = Head(b) THEN IsSubseq(Tail(a), Tail(b))
  ELSE IsSubseq(a, Tail(b))

\* C14: when a data message of type T has been handled, each callback was
\* called once per registration held for T (so not at all without one, and a
\* registration for another type causes no call), each call got the message's
\* data, or the message when it has none, and no exception left the handler.
C14_EveryRegistrationInvokedOnce ==
  (lastOp = "message" /\ received.type \in DataTypes)
    => /\ ~escaped
       /\ \A cb \in Callbacks :
            Cardinality({ k \in 1..Len(invoked) : invoked[k].cb = cb })
              = Cardinality({ i \in Held(received.type) : regs[i].cb = cb })
       /\ \A k \in 1..Len(invoked) : invoked[k].payload = Payload(received)

\* C15: the calls one message causes are made in the order in which the
\* registrations held for its type were made: the callbacks called, in the
\* order of the calls, are found in that order among the held registrations.
C15_DispatchInRegistrationOrder ==
  lastOp = "message"
    => IsSubseq(CallbacksOf(invoked), HeldCallbacks(received.type))

\* two listeners of one type were called, the earlier registration first
C15_Witness ==
  /\ lastOp = "message"
  /\ Len(regs) = 2
  /\ regs[1].cb # regs[2].cb
  /\ CallbacksOf(invoked) = <<regs[1].cb, regs[2].cb>>

\* C16: handling a message, whether or not a listener throws, calls every
\* callback in the Set of the message's type, lets no exception out of the
\* handler, and leaves the connection, the recorded subscriptions and the
\* listener registry as they were.
C16_ThrowingListenerIsIsolated ==
  [][\A msg \in Messages :
       OnMessage(msg)
         => /\ ~escaped'
            /\ msg.type \in DataTypes
                 => CallbacksOf(invoked') = Members(callbacks, msg.type)
            /\ UNCHANGED <<ws, orphans, timers, reconnectDelay,
                           reconnectAttempt, activeSubscriptions, callbacks>>]_vars

\* a listener that throws was called first and the next listener was called
C16_Witness ==
  /\ lastOp = "message"
  /\ Len(invoked) = 2
  /\ Throws(invoked[1].cb)
  /\ ~Throws(invoked[2].cb)
  /\ ~escaped

\* C17: calling the function returned by on() once more, after it was called
\* already, leaves this.callbacks as it was.
C17_SecondReleaseIsNoOp ==
  [][\A i \in 1..MaxRegs :
       (i \in 1..Len(regs) /\ regs[i].state = "released" /\ Release(i))
         => callbacks' = callbacks]_vars

\* C18: calling the function returned by a call of on() that is still held
\* leaves the callback of every other held registration, of the same type or
\* of another, in the Set it was in.
C18_ReleaseRemovesOneRegistration ==
  [][\A i \in 1..MaxRegs :
       (i \in 1..Len(regs) /\ regs[i].state = "held" /\ Release(i))
         => \A j \in 1..Len(regs) :
              (/\ j # i
               /\ regs[j].state = "held"
               /\ \E k \in 1..Len(Members(callbacks, regs[j].type)) :
                    Members(callbacks, regs[j].type)[k] = regs[j].cb)
                => \E k \in 1..Len(Members(callbacks', regs[j].type)) :
                     Members(callbacks', regs[j].type)[k] = regs[j].cb]_vars

\* C19: off(type) removes the key of the type and leaves every other key with
\* its Set; and a message only causes calls of callbacks that have a held
\* registration for its type, so none for a registration off() cleared.
C19_OffClearsOneType ==
  [][/\ \A type \in Types :
          Off(type)
            => /\ type \notin DOMAIN callbacks'
               /\ DOMAIN callbacks' = DOMAIN callbacks \ {type}
               /\ \A t \in DOMAIN callbacks' : callbacks'[t] = callbacks[t]
     /\ lastOp' = "message"
          => \A k \in 1..Len(invoked') :
               \E i \in 1..Len(regs') :
                 /\ regs'[i].state = "held"
                 /\ regs'[i].type = received'.type
                 /\ regs'[i].cb = invoked'[k].cb]_vars

\* after off() cleared the registration of a data type, a message of that
\* type caused no call, while the registration of another type is in its Set
C19_Witness ==
  /\ lastOp = "message"
  /\ received.type \in DataTypes
  /\ invoked = <<>>
  /\ \E i \in 1..Len(regs) :
       regs[i].state = "cleared" /\ regs[i].type = received.type
  /\ \E j \in 1..Len(regs) :
       /\ regs[j].state = "held"
       /\ Members(callbacks, regs[j].type) = <<regs[j].cb>>

\* C20: when a message of type subscribed or unsubscribed has been handled,
\* every callback in the Set of that type was called, and no exception left
\* the handler.
C20_AdminMessagesAreDispatched ==
  (lastOp = "message" /\ received.type \in AdminTypes)
    => /\ ~escaped
       /\ CallbacksOf(invoked) = Members(callbacks, received.type)

\* C21: the task that receives an undecodable frame calls no listener, lets
\* no exception out, and leaves the sockets, the timers, the recorded
\* subscriptions and the listener registry as they were, so that a socket is
\* still open; and the message that arrives next is dispatched to the whole
\* Set of its type.
C21_UndecodableFrameIsDropped ==
  [][/\ OnUndecodable
          => /\ invoked' = <<>>
             /\ ~escaped'
             /\ SomeOpen'
             /\ UNCHANGED <<ws, orphans, timers, reconnectAttempt,
                            activeSubscriptions, callbacks, regs>>
     /\ \A msg \in Messages :
          (received = Undecodable /\ msg.type \in DataTypes /\ OnMessage(msg))
            => CallbacksOf(invoked') = Members(callbacks, msg.type)]_vars

\* an undecodable frame has just been received on the open connection while a
\* listener of a data type is registered, and no reconnect timer is pending
C21_Witness ==
  /\ lastOp = "message"
  /\ received = Undecodable
  /\ isConnected
  /\ timers = <<>>
  /\ \E t \in DataTypes : Members(callbacks, t) # <<>>

\* C22: isConnected() is false before any connect(), and false as long as
\* close() was called and the application has not called connect() again; it
\* turns true only by the open of the socket this.ws references, and every
\* call of connect() or close() leaves it false.
C22_IsConnectedReflectsState ==
  /\ lastOp = "init" => ~isConnected
  /\ lastOp \in {"connect", "timer", "closeCall"} => ~isConnected
  /\ closeCalled => ~isConnected

\* the tasks of the connection: connect(), close(), a timer, a socket event
ConnectionOps ==
  {"connect", "closeCall", "timer", "open", "closing", "close", "error+close"}

\* cb is in the Set of the type
IsMember(map, type, cb) ==
  \E k \in 1..Len(Members(map, type)) : Members(map, type)[k] = cb

\* C23: a task of the connection leaves this.callbacks as it was; and whatever
\* the state of the connection, on(type, cb) puts cb in the Set of the type,
\* the function it returned takes cb out of it, off(type) removes the key, and
\* each leaves the Sets of the other types as they were.
C23_ListenersIndependentOfConnection ==
  [][/\ lastOp' \in ConnectionOps => callbacks' = callbacks
     /\ \A type \in Types, cb \in Callbacks :
          On(type, cb)
            => /\ IsMember(callbacks', type, cb)
               /\ \A t \in Types \ {type} :
                    Members(callbacks', t) = Members(callbacks, t)
     /\ \A i \in 1..MaxRegs :
          (i \in 1..Len(regs) /\ Release(i))
            => /\ ~IsMember(callbacks', regs[i].type, regs[i].cb)
               /\ \A t \in Types \ {regs[i].type} :
                    Members(callbacks', t) = Members(callbacks, t)
     /\ \A type \in Types :
          Off(type)
            => /\ type \notin DOMAIN callbacks'
               /\ \A t \in Types \ {type} :
                    Members(callbacks', t) = Members(callbacks, t)]_vars

\* a second close event in a row has just been handled after a listener was
\* released and registered again, and the listener is in its Set
C23_Witness ==
  /\ lastOp \in CloseEvents
  /\ reconnectAttempt = 2
  /\ Len(regs) = 2
  /\ regs[1].state = "released"
  /\ regs[2].state = "held"
  /\ Members(callbacks, regs[2].type) = <<regs[2].cb>>

\* C24: subscribe and unsubscribe call this.ws.send only when this.ws
\* references an open socket, the one call that could throw otherwise; in
\* every other state (no socket, connecting, closing, closed) they write
\* nothing.
C24_RequestsWrittenOnlyWhenOpen ==
  [][\A req \in Requests :
       (Subscribe(req) \/ Unsubscribe(req))
         => /\ sent' # <<>> => (ws.readyState = OPEN /\ ws' = ws)
            /\ ws.readyState \in {"null", CONNECTING, CLOSING, CLOSED}
                 => sent' = <<>>]_vars

\* subscribe was called while the socket was closed and a reconnect timer was
\* pending: the request is recorded and nothing was written
C24_Witness ==
  /\ lastOp = "subscribe"
  /\ ws.readyState = CLOSED
  /\ timers # <<>>
  /\ activeSubscriptions # <<>>
  /\ sent = <<>>

\* C25: unsubscribe for a request none of whose pairs has an outstanding
\* subscribe writes no wire message and leaves the list as it was.
C25_UnmatchedUnsubscribeIsNoOp ==
  [][\A req \in Requests :
       (Unsubscribe(req) /\ \A p \in Pairs(req) : outstanding[p] = 0)
         => /\ sent' = <<>>
            /\ activeSubscriptions' = activeSubscriptions]_vars

\* the tasks that make this.ws reference another socket, or none
Replacing == {"connect", "timer", "closeCall"}

\* C26: the promise of the connect() call whose socket this.ws references is
\* settled once: it is pending while the socket is connecting, it resolves in
\* the task of the socket's open event and rejects in the task of an error
\* event that comes before any open, and once settled it never changes; an
\* error or close event after the open leaves it resolved and schedules a
\* reconnect.
C26_ConnectOutcomeReportedOnce ==
  /\ [](ws.readyState = CONNECTING => ws.promise = "pending")
  /\ [](ws.readyState = OPEN => ws.promise = "resolved")
  /\ [](ws.readyState = CLOSED => ws.promise \in {"resolved", "rejected"})
  /\ [][lastOp' \notin Replacing
          => /\ ws.promise \in {"resolved", "rejected"} => ws'.promise = ws.promise
             /\ (ws.promise = "pending" /\ ws'.promise = "resolved")
                  => (lastOp' = "open" /\ ws'.readyState = OPEN)
             /\ (ws.promise = "pending" /\ ws'.promise = "rejected")
                  => (lastOp' = "error+close" /\ ws'.readyState = CLOSED)
             /\ (ws.promise = "resolved" /\ ws'.readyState = CLOSED
                   /\ ws.readyState # CLOSED)
                  => Len(timers') = Len(timers) + 1]_vars

\* the socket this.ws references had opened and has just closed after an
\* error event: its promise is still resolved and a reconnect timer is pending
C26_Witness ==
  /\ lastOp = "error+close"
  /\ ws = Sock(CLOSED, "resolved")
  /\ timers # <<>>

\* the pairs the messages of a task request
Requested(out) ==
  UNION { out[i].channels \X out[i].market_tickers : i \in 1..Len(out) }

\* C27: from any list the service can hold, resubscribe() on an open
\* connection leaves the list as it was and requests the pairs of its
\* entries, and a second run right after it does the same: the list is still
\* the one before the first run and the pairs requested are those of the first.
C27_ReplayIsIdempotent ==
  LET first == resubscribe(activeSubscriptions, TRUE)
      second == resubscribe(first.subs, TRUE)
  IN /\ first.subs = activeSubscriptions
     /\ second.subs = activeSubscriptions
     /\ Requested(second.out) = Requested(first.out)
     /\ Requested(first.out) = Recorded(activeSubscriptions)
     /\ (lastOp = "open" /\ isConnected)
          => /\ sent = first.out
             /\ sent = second.out

\* resubscribe() has just run on the open connection with two different
\* entries in the list
C27_Witness ==
  /\ lastOp = "open"
  /\ isConnected
  /\ Len(activeSubscriptions) = 2
  /\ activeSubscriptions[1] # activeSubscriptions[2]
  /\ Len(sent) = 2

C29_OneOpenSocketOrTimer ==
  Loaded => Transports + Len(timers) = 1

\* C29 amended: once the module has connected, there is exactly one socket
\* that can still fire an event (connecting, open or closing), referenced by
\* this.ws, or one pending reconnect timer, never both and never two.
C29_OneLiveSocketOrTimer ==
  Loaded
    => /\ Chains = 1
       /\ orphans = EmptyBag
       /\ (IF Live(ws) THEN 1 ELSE 0) + Len(timers) = 1

\* the second retry in a row is under way: one connecting socket, no timer
C29_Witness ==
  /\ lastOp = "timer"
  /\ reconnectAttempt = 2
  /\ ws = NewSocket
  /\ timers = <<>>

\* C30: when a listener called off(type) while a message of the type was
\* being dispatched, it is the last listener called for that message.
C30_OffDuringDispatchStopsIt ==
  lastOp = "message"
    => \A k \in 1..Len(invoked) :
         invoked[k].cb = Quitter => k = Len(invoked)
====
